---- MODULE Spec2Model ----
(***************************************************************************)
(* fast-weather: one invocation loads the WMO code table and the           *)
(* configuration, declares the ordered columns, fetches the hourly         *)
(* forecast through a caching, retrying session, assembles the data frame  *)
(* and prints it.  Successive invocations share the files on disk, the     *)
(* HTTP cache and the clock.                                               *)
(*                                                                         *)
(* Floats are fixed-point integers in thousandths (72.5 is 72500); NaN is  *)
(* a value of its own.  A call that may raise returns [err, val]: err is   *)
(* "" or the name of the Python exception.  An optional value is <<>> or   *)
(* <<v>>.                                                                  *)
(***************************************************************************)
EXTENDS Integers, Sequences, FiniteSets, TLC

VARIABLES
    wmoFile,      \* wmo.json on disk
    cfgFile,      \* .fastweathercfg.json on disk
    decl,         \* the declared (api key, header, formatter) list, in order
    now,          \* wall clock, seconds
    run,          \* number of the current invocation
    cache,        \* .cache: <<>> or <<[key, resp, expires]>>
    lastOk,       \* history: the last response obtained upstream, and when
    pc,           \* position of the current invocation
    err,          \* the exception that ended the invocation, "" if none
    failedAt,     \* the stage that raised it
    code_lut,     \* WMOWeatherCodes.code_lut
    cfg,          \* FastWeatherConfig
    hourly_cols,  \* ordered dict api key -> WeatherCol
    params,       \* request parameters
    attempts,     \* upstream requests sent by this invocation
    response,     \* responses[0].Hourly()
    df,           \* the data frame
    table,        \* tabulate's output
    stdout        \* what the invocation has printed

vars == <<wmoFile, cfgFile, decl, now, run, cache, lastOk, pc, err, failedAt,
          code_lut, cfg, hourly_cols, params, attempts, response, df, table,
          stdout>>

-----------------------------------------------------------------------------
(* Bounds *)

MaxRuns == 2

-----------------------------------------------------------------------------
(* Program constants *)

expire_after == 3600
retries == 5
forecast_hours == 12
past_hours == 0
DefaultColor == "blue"
CYAN == "\\033[36m"
reset == "\\033[0m"
TimeHeader == "\\033[36mTime\\033[0m"
url == "https://api.open-meteo.com/v1/forecast"

NaN == 0 - 999999999
Ok(v) == [err |-> "", val |-> v]
Raise(e) == [err |-> e]

-----------------------------------------------------------------------------
(* Python and library primitives *)

Digits == <<"0", "1", "2", "3", "4", "5", "6", "7", "8", "9">>

RECURSIVE str(_)
str(n) ==
    IF n < 0 THEN "-" \o str(0 - n)
    ELSE IF n < 10 THEN Digits[n + 1]
    ELSE str(n \div 10) \o Digits[(n % 10) + 1]

int_floor(x) ==
    IF x = NaN THEN Raise("ValueError: cannot convert float NaN to integer")
    ELSE Ok(x \div 1000)

\* int(x) of a float: truncation toward zero; NaN raises.
int(x) ==
    IF x = NaN THEN Raise("ValueError: cannot convert float NaN to integer")
    ELSE IF x >= 0 THEN Ok(x \div 1000)
    ELSE Ok(0 - ((0 - x) \div 1000))

\* round(x, 2): to the nearest hundredth, ties to even.
round2(x) ==
    LET a == IF x < 0 THEN 0 - x ELSE x
        q == a \div 10
        r == a % 10
        h == IF r > 5 THEN q + 1
             ELSE IF r < 5 THEN q
             ELSE IF q % 2 = 0 THEN q ELSE q + 1
    IN  IF x < 0 THEN 0 - h ELSE h

\* f"{v:.2f}" of a value in hundredths.
fmt2f(h) ==
    LET a == IF h < 0 THEN 0 - h ELSE h
        f == a % 100
    IN  (IF h < 0 THEN "-" ELSE "") \o str(a \div 100) \o "."
            \o Digits[(f \div 10) + 1] \o Digits[(f % 10) + 1]

\* open(fp).read() followed by json.loads(raw).
read_json(file) ==
    IF file.kind = "missing" THEN Raise("FileNotFoundError")
    ELSE IF file.kind = "malformed" THEN Raise("JSONDecodeError")
    ELSE Ok(file.value)

\* value[key] of a parsed JSON value.
getitem(value, key) ==
    IF value.type # "object" THEN Raise("TypeError")
    ELSE IF key \notin DOMAIN value.obj THEN Raise("KeyError")
    ELSE Ok(value.obj[key])

-----------------------------------------------------------------------------
(* WeatherCol *)

color_header_any(header, color) ==
    IF color = "None" THEN header ELSE CYAN \o header \o reset

color_header(header, color) ==
    IF color = "None" THEN header
    ELSE IF color = "blue" THEN CYAN \o header \o reset
    ELSE header

WeatherCol(header, format_function, color) ==
    [header |-> color_header(header, color),
     format_function |-> format_function,
     color |-> color]

-----------------------------------------------------------------------------
(* WMOWeatherCodes *)

WMOWeatherCodes(file) == read_json(file)

WMOWeatherCodes_get_desc(lut, code) ==
    LET i == int(code) IN
    IF i.err # "" THEN i
    ELSE LET e == getitem(lut, str(i.val)) IN
         IF e.err # "" THEN e
         ELSE LET n == getitem(e.val, "night") IN
              IF n.err # "" THEN n
              ELSE getitem(n.val, "description")

-----------------------------------------------------------------------------
(* FastWeatherConfig *)

FastWeatherConfig_default(file) ==
    LET j == read_json(file) IN
    IF j.err # "" THEN j
    ELSE LET la == getitem(j.val, "latitude")
             lo == getitem(j.val, "longitude")
             tz == getitem(j.val, "timezone")
         IN  IF la.err # "" THEN la
             ELSE IF lo.err # "" THEN lo
             ELSE Ok([cfg |-> j.val, latitude |-> la.val, longitude |-> lo.val,
                      timezone |-> IF tz.err # "" THEN "UTC" ELSE tz.val])

FastWeatherConfig(file) ==
    LET j == read_json(file) IN
    IF j.err # "" THEN j
    ELSE LET la == getitem(j.val, "latitude")
             lo == getitem(j.val, "longitude")
             tz == getitem(j.val, "timezone")
         IN  IF la.err # "" THEN la
             ELSE IF lo.err # "" THEN lo
             ELSE IF tz.err # "" THEN tz
             ELSE Ok([cfg |-> j.val, latitude |-> la.val,
                      longitude |-> lo.val, timezone |-> tz.val])

-----------------------------------------------------------------------------
(* The declared columns, lines 78-88; no WeatherCol is given a color, so   *)
(* each takes the default.                                                 *)

Declared ==
    << [key |-> "temperature_2m", header |-> "Temp (F)", fmt |-> "round_2dec", color |-> DefaultColor],
       [key |-> "apparent_temperature", header |-> "Feels Like (F)", fmt |-> "round_2dec", color |-> DefaultColor],
       [key |-> "weather_code", header |-> "Weather", fmt |-> "wmocode_to_desc", color |-> DefaultColor],
       [key |-> "precipitation_probability", header |-> "Precip (%)", fmt |-> "None", color |-> DefaultColor],
       [key |-> "precipitation", header |-> "Precip (in)", fmt |-> "None", color |-> DefaultColor],
       [key |-> "relative_humidity_2m", header |-> "Humidity (%)", fmt |-> "None", color |-> DefaultColor],
       [key |-> "dew_point_2m", header |-> "Dew Point", fmt |-> "round_2dec", color |-> DefaultColor],
       [key |-> "uv_index", header |-> "UV Index", fmt |-> "None", color |-> DefaultColor] >>

NumCols == Len(Declared)

\* The declared list and its reorderings by one adjacent exchange.
SwapAdj(s, i) ==
    [k \in 1..Len(s) |-> IF k = i THEN s[i + 1] ELSE IF k = i + 1 THEN s[i] ELSE s[k]]

Orders == {Declared} \cup {SwapAdj(Declared, i) : i \in 1..(NumCols - 1)}

\* hourly_cols = { key : WeatherCol(header, format_function=...) , ... }
hourly_cols_of(d) ==
    [k \in 1..Len(d) |->
        [key |-> d[k].key, col |-> WeatherCol(d[k].header, d[k].fmt, d[k].color)]]

keys_reversed(cols) == [k \in 1..Len(cols) |-> cols[Len(cols) + 1 - k].key]

keys(cols) == [k \in 1..Len(cols) |-> cols[k].key]

make_params(c, cols) ==
    [latitude |-> c.latitude,
     longitude |-> c.longitude,
     forecast_hours |-> forecast_hours,
     past_hours |-> past_hours,
     hourly |-> keys(cols),
     timezone |-> c.timezone,
     wind_speed_unit |-> "mph",
     temperature_unit |-> "fahrenheit",
     precipitation_unit |-> "inch"]

-----------------------------------------------------------------------------
(* Formatters, lines 76-77 and 25-29 *)

wmocode_to_desc(lut, code) == WMOWeatherCodes_get_desc(lut, code)

round_2dec(x) == IF x = NaN THEN Ok("nan") ELSE Ok(fmt2f(round2(x)))

apply_fmt(f, lut, x) ==
    IF f = "round_2dec" THEN round_2dec(x) ELSE wmocode_to_desc(lut, x)

\* np.vectorize(f)(data): element by element, in order; the first exception
\* propagates; an empty input is rejected (no otypes were given).
vectorize(f, lut, data) ==
    IF Len(data) = 0 THEN Raise("ValueError: cannot call vectorize on size 0 inputs")
    ELSE LET out == [i \in 1..Len(data) |-> apply_fmt(f, lut, data[i])]
             bad == {i \in 1..Len(data) : out[i].err # ""}
         IN  IF bad # {}
             THEN out[CHOOSE i \in bad : \A j \in bad : i <= j]
             ELSE Ok([i \in 1..Len(data) |-> out[i].val])

WeatherCol_format(col, lut, data) ==
    IF col.format_function # "None"
    THEN vectorize(col.format_function, lut, data)
    ELSE Ok(data)

-----------------------------------------------------------------------------
(* Time axis, lines 108-115 *)

TzOffset(tz) == IF tz = "America/New_York" THEN 0 - 18000 ELSE 0

\* pd.date_range(start, end, freq, inclusive="left"): start, start+freq, ...
\* not beyond end, then without end itself.
RECURSIVE Without(_, _)
Without(s, x) ==
    IF s = <<>> THEN <<>>
    ELSE IF Head(s) = x THEN Without(Tail(s), x)
    ELSE <<Head(s)>> \o Without(Tail(s), x)

date_range_right(start, end, freq) ==
    LET n == IF end < start THEN 0 ELSE ((end - start) \div freq) + 1
        all == [k \in 1..n |-> start + (k - 1) * freq]
    IN  Without(all, start)

date_range(start, end, freq) ==
    LET n == IF end < start THEN 0 ELSE ((end - start) \div freq) + 1
        all == [k \in 1..n |-> start + (k - 1) * freq]
    IN  Without(all, end)

\* strftime("[%a %b %d] %I:%M %p") in the zone: the calendar day stands for
\* "%a %b %d".
strftime(t, tz) ==
    LET l == t + TzOffset(tz)
        h == (l \div 3600) % 24
        I == IF h % 12 = 0 THEN 12 ELSE h % 12
        M == (l \div 60) % 60
    IN  "[day " \o str(l \div 86400) \o "] "
            \o Digits[(I \div 10) + 1] \o Digits[(I % 10) + 1] \o ":"
            \o Digits[(M \div 10) + 1] \o Digits[(M % 10) + 1]
            \o (IF h < 12 THEN " AM" ELSE " PM")

time_labels(hourly, tz) ==
    LET ts == date_range(hourly.Time, hourly.TimeEnd, hourly.Interval)
    IN  [k \in 1..Len(ts) |-> strftime(ts[k], tz)]

-----------------------------------------------------------------------------
(* Assembly, lines 117-123 *)

\* d[key] = value on an insertion-ordered dict of <<key, value>> entries.
dict_set(d, key, value) ==
    IF \E k \in 1..Len(d) : d[k].key = key
    THEN [k \in 1..Len(d) |-> IF d[k].key = key THEN [key |-> key, value |-> value] ELSE d[k]]
    ELSE Append(d, [key |-> key, value |-> value])

\* hourly.Variables(idx).ValuesAsNumpy(), idx from 0.
Variables(hourly, idx) == hourly.Variables[idx + 1]

\* for idx, key in enumerate(hourly_cols): ...
RECURSIVE format_loop(_, _, _, _, _)
format_loop(idx, cols, lut, hourly, hourly_data) ==
    IF idx >= Len(cols) THEN Ok(hourly_data)
    ELSE LET col == cols[idx + 1].col
             data == WeatherCol_format(col, lut, Variables(hourly, idx))
         IN  IF data.err # "" THEN data
             ELSE format_loop(idx + 1, cols, lut, hourly,
                              dict_set(hourly_data, col.header, data.val))

DataFrame_shortest(hourly_data) ==
    LET n == CHOOSE m \in {Len(hourly_data[k].value) : k \in 1..Len(hourly_data)} :
                 \A k \in 1..Len(hourly_data) : m <= Len(hourly_data[k].value)
    IN  Ok([columns |-> [k \in 1..Len(hourly_data) |-> hourly_data[k].key],
            rows |-> [r \in 1..n |->
                         [k \in 1..Len(hourly_data) |-> hourly_data[k].value[r]]]])

\* pd.DataFrame(data = hourly_data): the columns in insertion order, all of
\* one length.
DataFrame(hourly_data) ==
    IF \E a, b \in 1..Len(hourly_data) :
           Len(hourly_data[a].value) # Len(hourly_data[b].value)
    THEN Raise("ValueError: All arrays must be of the same length")
    ELSE LET n == Len(hourly_data[1].value) IN
         Ok([columns |-> [k \in 1..Len(hourly_data) |-> hourly_data[k].key],
             rows |-> [r \in 1..n |->
                          [k \in 1..Len(hourly_data) |-> hourly_data[k].value[r]]]])

\* Lines 107-123 of FastWeather.get.
process(hourly, cols, lut, c) ==
    LET hourly_data0 == <<[key |-> TimeHeader, value |-> time_labels(hourly, c.timezone)]>>
        filled == format_loop(0, cols, lut, hourly, hourly_data0)
    IN  IF filled.err # "" THEN filled ELSE DataFrame(filled.val)

\* tb.tabulate(df, headers="keys", tablefmt="github", showindex=False):
\* the header line, the separator line, one line per row.
tabulate(d) ==
    <<[line |-> "header", cells |-> d.columns],
      [line |-> "separator", cells |-> [k \in 1..Len(d.columns) |-> "---"]]>>
        \o [r \in 1..Len(d.rows) |-> [line |-> "row", cells |-> d.rows[r]]]

-----------------------------------------------------------------------------
(* The files on disk *)

NightDesc == ("0" :> "Clear") @@ ("1" :> "Mainly Clear")
                @@ ("2" :> "Partly Cloudy") @@ ("3" :> "Cloudy")
DayDesc == ("0" :> "Sunny") @@ ("1" :> "Mainly Sunny")
                @@ ("2" :> "Partly Cloudy") @@ ("3" :> "Cloudy")

JObject(f) == [type |-> "object", obj |-> f]

WmoEntry(s) ==
    JObject([day |-> JObject([description |-> DayDesc[s]]),
             night |-> JObject([description |-> NightDesc[s]])])

WmoTable(codes) == JObject([s \in {str(c) : c \in codes} |-> WmoEntry(s)])

WmoFiles ==
    { [kind |-> "missing"],
      [kind |-> "malformed"],
      [kind |-> "json", value |-> WmoTable({0, 1, 2, 3})],
      [kind |-> "json", value |-> WmoTable({0, 1, 2})] }

CfgFiles ==
    { [kind |-> "missing"],
      [kind |-> "malformed"],
      [kind |-> "json", value |-> [type |-> "array"]],
      [kind |-> "json", value |-> JObject([longitude |-> 0 - 74000, timezone |-> "America/New_York"])],
      [kind |-> "json", value |-> JObject([latitude |-> 40700, timezone |-> "America/New_York"])],
      [kind |-> "json", value |-> JObject([latitude |-> 40700, longitude |-> 0 - 74000])],
      [kind |-> "json", value |-> JObject([latitude |-> 40700, longitude |-> 0 - 74000,
                                           timezone |-> "America/New_York"])],
      [kind |-> "json", value |-> JObject([latitude |-> 51500, longitude |-> 0 - 120,
                                           timezone |-> "UTC", units |-> "metric"])] }

-----------------------------------------------------------------------------
(* The upstream API *)

T0 == 1700000000 - (1700000000 % 3600)

\* (Time, TimeEnd, Interval) of the hourly block: none, the requested
\* forecast_hours, and an end that is no whole number of intervals away.
Ranges ==
    { <<T0, T0, 3600>>,
      <<T0, T0 + forecast_hours * 3600, 3600>>,
      <<T0, T0 + 9000, 3600>> }

\* <<k, d>>: the array of variable k is d longer than the time axis; <<0, 0>>
\* is an aligned response.
Misfits == { <<0, 0>>, <<1, 0 - 2>>, <<NumCols, 1>> }

\* The weather codes of the hours, repeated as far as needed.
WxPatterns ==
    { <<0, 1000, 2000, 3000>>,
      <<1700, 2900, 0 - 500>>,
      <<0, 4000>>,
      <<2000, NaN>> }

FieldNo ==
    [temperature_2m |-> 1, apparent_temperature |-> 2, weather_code |-> 3,
     precipitation_probability |-> 4, precipitation |-> 5,
     relative_humidity_2m |-> 6, dew_point_2m |-> 7, uv_index |-> 8]

Series(field, n, wx) ==
    [i \in 1..n |->
        IF field = "weather_code" THEN wx[((i - 1) % Len(wx)) + 1]
        ELSE FieldNo[field] * 10000 + i * 1115]

\* The responses drawn: every range and every code pattern aligned; the
\* misaligned ones over the full range, with codes known and unknown.
FullRange == <<T0, T0 + forecast_hours * 3600, 3600>>

Scenarios ==
    { s \in Ranges \X Misfits \X WxPatterns :
        \/ s[2] = <<0, 0>>
        \/ s[1] = FullRange /\ s[3] \in {<<0, 1000, 2000, 3000>>, <<0, 4000>>} }

Max0(x) == IF x < 0 THEN 0 ELSE x

\* The number of hours the API serves for a range: those begun before its end.
Hours(range) == (range[2] - range[1] + range[3] - 1) \div range[3]

\* The hourly block answering a request: one array per requested field, in
\* the order of the request.
Upstream(p, range, misfit, wx) ==
    LET n == Hours(range) IN
    [Time |-> range[1], TimeEnd |-> range[2], Interval |-> range[3],
     Variables |-> [k \in 1..Len(p.hourly) |->
                      Series(p.hourly[k],
                             IF k = misfit[1] THEN Max0(n + misfit[2]) ELSE n,
                             wx)]]

\* Seconds between two invocations.
Gaps == {expire_after - 1, expire_after}

-----------------------------------------------------------------------------
(* The invocation *)

Init ==
    /\ wmoFile \in WmoFiles
    /\ cfgFile \in CfgFiles
    /\ decl \in Orders
    /\ now = 0
    /\ run = 1
    /\ cache = <<>>
    /\ lastOk = <<>>
    /\ pc = "start"
    /\ err = ""
    /\ failedAt = ""
    /\ code_lut = <<>>
    /\ cfg = <<>>
    /\ hourly_cols = <<>>
    /\ params = <<>>
    /\ attempts = 0
    /\ response = <<>>
    /\ df = <<>>
    /\ table = <<>>
    /\ stdout = <<>>

env == <<wmoFile, cfgFile, decl, now, run>>

Fail(stage, e) ==
    /\ pc' = "failed"
    /\ err' = e
    /\ failedAt' = stage

LoadWMOCodes_lazy ==
    /\ pc = "start"
    /\ pc' = "wmo"
    /\ UNCHANGED <<env, cache, lastOk, err, failedAt, code_lut, cfg, hourly_cols,
                   params, attempts, response, df, table, stdout>>

\* wmo_codes = WMOWeatherCodes()
LoadWMOCodes ==
    /\ pc = "start"
    /\ LET r == WMOWeatherCodes(wmoFile) IN
       IF r.err # ""
       THEN Fail("wmo", r.err) /\ code_lut' = code_lut
       ELSE /\ code_lut' = <<r.val>>
            /\ pc' = "wmo"
            /\ UNCHANGED <<err, failedAt>>
    /\ UNCHANGED <<env, cache, lastOk, cfg, hourly_cols, params, attempts,
                   response, df, table, stdout>>

\* cfg = FastWeatherConfig()
LoadConfig ==
    /\ pc = "wmo"
    /\ LET r == FastWeatherConfig(cfgFile) IN
       IF r.err # ""
       THEN Fail("config", r.err) /\ cfg' = cfg
       ELSE /\ cfg' = <<r.val>>
            /\ pc' = "cfg"
            /\ UNCHANGED <<err, failedAt>>
    /\ UNCHANGED <<env, cache, lastOk, code_lut, hourly_cols, params, attempts,
                   response, df, table, stdout>>

\* Lines 66-103: the session, the columns, the request parameters.
Setup ==
    /\ pc = "cfg"
    /\ hourly_cols' = hourly_cols_of(decl)
    /\ params' = <<make_params(cfg[1], hourly_cols')>>
    /\ pc' = "ready"
    /\ UNCHANGED <<env, cache, lastOk, err, failedAt, code_lut, cfg, attempts,
                   response, df, table, stdout>>

request_key(p) == [url |-> url, params |-> p]

cache_hit_late(c, key, t) ==
    /\ c # <<>>
    /\ c[1].key = key
    /\ t <= c[1].expires

\* CachedSession.send: an entry of the same request that has not expired
\* answers the request.
cache_hit(c, key, t) ==
    /\ c # <<>>
    /\ c[1].key = key
    /\ t < c[1].expires

\* openmeteo.weather_api(url, params=params), up to the cache.
CallApi ==
    /\ pc = "ready"
    /\ IF cache_hit(cache, request_key(params[1]), now)
       THEN /\ response' = <<cache[1].resp>>
            /\ pc' = "fetched"
       ELSE /\ pc' = "sending"
            /\ response' = response
    /\ UNCHANGED <<env, cache, lastOk, err, failedAt, code_lut, cfg, hourly_cols,
                   params, attempts, df, table, stdout>>

exhausted_late(failures) == failures > retries + 1

\* Retry(total=retries): a failed request is sent again until the failures
\* outnumber the retries.
exhausted(failures) == failures > retries

\* One request sent upstream, and what the session makes of its outcome.
AttemptOk(range, misfit, wx) ==
    /\ pc = "sending"
    /\ attempts' = attempts + 1
    /\ LET resp == Upstream(params[1], range, misfit, wx) IN
       /\ response' = <<resp>>
       /\ cache' = <<[key |-> request_key(params[1]), resp |-> resp,
                      expires |-> now + expire_after]>>
       /\ lastOk' = <<[at |-> now, run |-> run, resp |-> resp]>>
    /\ pc' = "fetched"
    /\ UNCHANGED <<env, err, failedAt, code_lut, cfg, hourly_cols, params, df,
                   table, stdout>>

AttemptTransient ==
    /\ pc = "sending"
    /\ attempts' = attempts + 1
    /\ IF exhausted(attempts')
       THEN Fail("fetch", "RetryError")
       ELSE UNCHANGED <<pc, err, failedAt>>
    /\ UNCHANGED <<env, cache, lastOk, code_lut, cfg, hourly_cols, params,
                   response, df, table, stdout>>

\* A status outside the retried ones (a rejected request) is neither
\* retried nor stored.
AttemptRejected ==
    /\ pc = "sending"
    /\ attempts' = attempts + 1
    /\ Fail("fetch", "OpenMeteoRequestsError")
    /\ UNCHANGED <<env, cache, lastOk, code_lut, cfg, hourly_cols, params,
                   response, df, table, stdout>>

\* Lines 107-123.
Process ==
    /\ pc = "fetched"
    /\ LET r == process(response[1], hourly_cols, code_lut[1], cfg[1]) IN
       IF r.err # ""
       THEN Fail("process", r.err) /\ df' = df
       ELSE /\ df' = <<r.val>>
            /\ pc' = "assembled"
            /\ UNCHANGED <<err, failedAt>>
    /\ UNCHANGED <<env, cache, lastOk, code_lut, cfg, hourly_cols, params,
                   attempts, response, table, stdout>>

\* table = tb.tabulate(weatherdf, ...)
Tabulate ==
    /\ pc = "assembled"
    /\ table' = <<tabulate(df[1])>>
    /\ pc' = "tabulated"
    /\ UNCHANGED <<env, cache, lastOk, err, failedAt, code_lut, cfg, hourly_cols,
                   params, attempts, response, df, stdout>>

PrintTable_finally ==
    /\ pc \in {"tabulated", "failed"}
    /\ stdout = <<>>
    /\ stdout' = Append(stdout, IF table = <<>> THEN <<>> ELSE table[1])
    /\ pc' = IF pc = "failed" THEN "failed" ELSE "done"
    /\ UNCHANGED <<env, cache, lastOk, err, failedAt, code_lut, cfg, hourly_cols,
                   params, attempts, response, df, table>>

\* print(table)
PrintTable ==
    /\ pc = "tabulated"
    /\ stdout' = Append(stdout, table[1])
    /\ pc' = "done"
    /\ UNCHANGED <<env, cache, lastOk, err, failedAt, code_lut, cfg, hourly_cols,
                   params, attempts, response, df, table>>

\* The next invocation of the script, gap seconds later: a new process over
\* the same files and the same .cache.
NewRun(gap) ==
    /\ pc \in {"done", "failed"}
    /\ run < MaxRuns
    /\ run' = run + 1
    /\ now' = now + gap
    /\ pc' = "start"
    /\ err' = ""
    /\ failedAt' = ""
    /\ code_lut' = <<>>
    /\ cfg' = <<>>
    /\ hourly_cols' = <<>>
    /\ params' = <<>>
    /\ attempts' = 0
    /\ response' = <<>>
    /\ df' = <<>>
    /\ table' = <<>>
    /\ stdout' = <<>>
    /\ UNCHANGED <<wmoFile, cfgFile, decl, cache, lastOk>>

Next ==
    \/ LoadWMOCodes
    \/ LoadConfig
    \/ Setup
    \/ CallApi
    \/ \E s \in Scenarios : AttemptOk(s[1], s[2], s[3])
    \/ AttemptTransient
    \/ AttemptRejected
    \/ Process
    \/ Tabulate
    \/ PrintTable
    \/ \E gap \in Gaps : NewRun(gap)

Spec == Init /\ [][Next]_vars

-----------------------------------------------------------------------------
(* The column declarations on their own: each WeatherCol of a declared     *)
(* list is constructed in turn, whatever color the declaration gives it.   *)

Colors == {"None", "blue", "red"}

Recolor(d, i, c) ==
    [k \in 1..Len(d) |-> IF k = i THEN [d[k] EXCEPT !.color = c] ELSE d[k]]

InitCol ==
    /\ wmoFile = [kind |-> "missing"]
    /\ cfgFile = [kind |-> "missing"]
    /\ decl \in {Recolor(o, i, c) : o \in Orders, i \in 1..NumCols, c \in Colors}
    /\ now = 0
    /\ run = 1
    /\ cache = <<>>
    /\ lastOk = <<>>
    /\ pc = "declaring"
    /\ err = ""
    /\ failedAt = ""
    /\ code_lut = <<>>
    /\ cfg = <<>>
    /\ hourly_cols = <<>>
    /\ params = <<>>
    /\ attempts = 0
    /\ response = <<>>
    /\ df = <<>>
    /\ table = <<>>
    /\ stdout = <<>>

\* The next entry of the hourly_cols literal.
DeclareCol ==
    /\ pc = "declaring"
    /\ Len(hourly_cols) < Len(decl)
    /\ LET d == decl[Len(hourly_cols) + 1] IN
       hourly_cols' = Append(hourly_cols,
                             [key |-> d.key, col |-> WeatherCol(d.header, d.fmt, d.color)])
    /\ UNCHANGED <<env, cache, lastOk, pc, err, failedAt, code_lut, cfg, params,
                   attempts, response, df, table, stdout>>

NextCol == DeclareCol

SpecCol == InitCol /\ [][NextCol]_vars

-----------------------------------------------------------------------------
(* Properties *)

Called == pc \in {"sending", "fetched", "assembled", "tabulated", "done"}
              \/ (pc = "failed" /\ failedAt \in {"fetch", "process"})

\* The integer part of x thousandths, toward zero.
IntegerPart(x) ==
    CHOOSE n \in (0 - 100)..100 :
        IF x >= 0 THEN n >= 0 /\ n * 1000 <= x /\ x < (n + 1) * 1000
        ELSE n <= 0 /\ x <= n * 1000 /\ (n - 1) * 1000 < x

\* What a column shows for a raw value.
Shown(f, x) ==
    IF f = "None" THEN x
    ELSE IF f = "round_2dec" THEN fmt2f(round2(x))
    ELSE IF x = NaN \/ str(IntegerPart(x)) \notin DOMAIN NightDesc THEN ""
    ELSE NightDesc[str(IntegerPart(x))]

\* C1: the fields of the request, the response variable each column reads
\* and the data columns of the frame all follow the declared list: field k
\* of the request is the key of declared column k, and data column k of the
\* frame carries the header of declared column k over the API's series of
\* that column's own field.
C1_ColumnOrderCoincides ==
    /\ params # <<>> => params[1].hourly = [k \in 1..Len(decl) |-> decl[k].key]
    /\ df # <<>> =>
          /\ df[1].columns =
                <<TimeHeader>> \o [k \in 1..Len(decl) |-> CYAN \o decl[k].header \o reset]
          /\ \A k \in 1..Len(decl) : \E wx \in WxPatterns :
                LET raw == Series(decl[k].key, Len(df[1].rows), wx) IN
                \A r \in 1..Len(df[1].rows) :
                    df[1].rows[r][k + 1] = Shown(decl[k].fmt, raw[r])

\* C1 witness: a reordered declaration, rendered.
C1_Witness == pc = "done" /\ decl # Declared /\ Len(df[1].rows) = forecast_hours

\* C2, as amended: an assembled frame has exactly one row per timestamp
\* start + k * interval below end, labelled with that timestamp first and
\* followed by one value per column; the row count is (end - start) /
\* interval rounded up, which is the quotient itself when the interval
\* divides the range and 12 for the requested window.
C2_RowPerTimestamp ==
    df # <<>> =>
        LET h == response[1]
            n == Len(df[1].rows)
        IN  /\ \A r \in 1..n :
                  /\ h.Time + (r - 1) * h.Interval < h.TimeEnd
                  /\ df[1].rows[r][1] = strftime(h.Time + (r - 1) * h.Interval, cfg[1].timezone)
                  /\ Len(df[1].rows[r]) = 1 + Len(decl)
            /\ h.Time + n * h.Interval >= h.TimeEnd
            /\ (h.TimeEnd - h.Time) % h.Interval = 0 =>
                   n * h.Interval = h.TimeEnd - h.Time
            /\ (h.TimeEnd - h.Time = forecast_hours * 3600 /\ h.Interval = 3600) =>
                   n = forecast_hours

\* C2 witness: the frame of a range whose end is no whole number of
\* intervals from its start.
C2_Witness ==
    /\ df # <<>>
    /\ (response[1].TimeEnd - response[1].Time) % response[1].Interval # 0

\* C2 as stated: the row count of an assembled frame is (end - start) /
\* interval.
C2_RowCountIsQuotient ==
    df # <<>> =>
        Len(df[1].rows) * response[1].Interval = response[1].TimeEnd - response[1].Time

Misaligned ==
    /\ response # <<>>
    /\ \E k \in 1..Len(response[1].Variables) :
           Len(response[1].Variables[k]) # Hours(<<response[1].Time, response[1].TimeEnd,
                                                   response[1].Interval>>)

FormattersSucceed ==
    \A k \in 1..Len(hourly_cols) :
        WeatherCol_format(hourly_cols[k].col, code_lut[1], response[1].Variables[k]).err = ""

SameLengthError == "ValueError: All arrays must be of the same length"

\* C3, as amended: a response with an array whose length differs from the
\* number of timestamps is never assembled: no frame, no table, no output,
\* and the run fails in assembly, with the length error when every formatter
\* succeeded and with the first formatter's error otherwise.
C3_MisalignedNeverAssembled ==
    Misaligned =>
        /\ df = <<>> /\ table = <<>> /\ stdout = <<>>
        /\ pc \in {"fetched", "failed"}
        /\ pc = "failed" =>
              /\ failedAt = "process"
              /\ err # ""
              /\ (err = SameLengthError) <=> FormattersSucceed

\* C3 witness: ten values against twelve timestamps, rejected for it.
C3_Witness ==
    /\ Misaligned
    /\ pc = "failed"
    /\ err = SameLengthError
    /\ \E k \in 1..Len(response[1].Variables) :
           Len(response[1].Variables[k]) = forecast_hours - 2

\* C3 as stated: a misaligned response always fails with the alignment error.
C3_MisalignedRaisesAlignment ==
    (Misaligned /\ pc = "failed") => err = SameLengthError

\* C4: a run that failed has printed nothing and has none of the products
\* of the stages after the failing one; whatever is on standard output is
\* the whole table of a run whose every stage succeeded.
C4_FailureAborts ==
    /\ pc = "failed" =>
          /\ err # "" /\ stdout = <<>> /\ table = <<>> /\ df = <<>>
          /\ failedAt = "wmo" => code_lut = <<>> /\ cfg = <<>> /\ params = <<>>
                                    /\ attempts = 0 /\ response = <<>>
          /\ failedAt = "config" => cfg = <<>> /\ params = <<>> /\ attempts = 0
                                       /\ response = <<>>
          /\ failedAt = "fetch" => response = <<>>
    /\ stdout # <<>> =>
          /\ pc = "done" /\ err = ""
          /\ code_lut # <<>> /\ cfg # <<>> /\ response # <<>> /\ df # <<>>
          /\ stdout = <<tabulate(df[1])>>
          /\ Len(stdout[1]) = 2 + Len(df[1].rows)
    /\ wmoFile.kind # "json" /\ pc # "start" => pc = "failed"
    /\ pc # "failed" => err = ""

\* C4 witness: a weather code without an entry ended the run in formatting.
C4_Witness == pc = "failed" /\ failedAt = "process" /\ err = "KeyError"

\* C5, as amended: a fetch sends at most retries + 1 = 6 requests upstream
\* and fails for lack of retries only after the sixth; every step of a
\* pending fetch sends one more request, so the fetch ends, in a response or
\* in an error, within six steps; and a run starts no second fetch.
C5_FetchEndsWithinSixAttempts ==
    /\ [](/\ attempts <= retries + 1
          /\ pc = "sending" => attempts <= retries
          /\ (pc = "failed" /\ err = "RetryError") => attempts = retries + 1
          /\ (pc = "failed" /\ failedAt = "fetch") => response = <<>>)
    /\ [][/\ pc = "sending" =>
                /\ attempts' = attempts + 1
                /\ pc' = "sending" \/ pc' = "fetched"
                      \/ (pc' = "failed" /\ failedAt' = "fetch")
          /\ (pc # "sending" /\ pc' = "sending") => attempts = 0
          /\ attempts' # attempts => pc = "sending" \/ pc' = "start"]_vars

\* C5 witness: the sixth request failed as well.
C5_Witness == pc = "failed" /\ err = "RetryError" /\ attempts = retries + 1

\* C5 as stated: no fetch sends more than five requests upstream.
C5_AtMostFiveAttempts == attempts <= 5

Fresh == lastOk # <<>> /\ lastOk[1].run < run /\ now - lastOk[1].at < expire_after
Stale == lastOk = <<>> \/ (lastOk[1].run < run /\ now - lastOk[1].at >= expire_after)

\* C6: a call made less than 3600 seconds after the response of the same
\* request was obtained upstream is answered with that response and sends
\* nothing upstream; a call made when there is no such response, or 3600
\* seconds or more after it was obtained, goes upstream; the cache holds
\* nothing but the last response obtained upstream.
C6_CacheAnswersUntilExpiry ==
    /\ (Called /\ Fresh) =>
          /\ attempts = 0 /\ pc # "sending"
          /\ response = <<lastOk[1].resp>>
    /\ (Called /\ Stale) =>
          /\ response = <<>>
          /\ pc = "sending" \/ attempts >= 1
    /\ (cache = <<>>) <=> (lastOk = <<>>)
    /\ cache # <<>> =>
          /\ cache[1].resp = lastOk[1].resp
          /\ cache[1].expires = lastOk[1].at + expire_after

\* C6 witness: the second invocation, 3599 seconds after the first, printed
\* the first one's response without a request.
C6_Witness ==
    /\ run = 2 /\ pc = "done" /\ attempts = 0
    /\ now = expire_after - 1
    /\ lastOk # <<>> /\ lastOk[1].run = 1

WeatherCodes ==
    IF response = <<>> \/ params = <<>> THEN <<>>
    ELSE LET k == CHOOSE j \in 1..Len(params[1].hourly) : params[1].hourly[j] = "weather_code"
         IN  response[1].Variables[k]

Present(x) == str(IntegerPart(x)) \in DOMAIN code_lut[1].obj

\* C7: describe looks up the integer part of the code: a code whose integer
\* part has an entry gives that entry's night description, which is not
\* empty, and any other gives a KeyError; the Weather column shows exactly
\* these descriptions, and a run ended by a KeyError met a code without an
\* entry.
C7_DescribeLooksUpIntegerPart ==
    /\ \A i \in 1..Len(WeatherCodes) :
          LET x == WeatherCodes[i]
              d == WMOWeatherCodes_get_desc(code_lut[1], x)
          IN  x # NaN =>
                 IF Present(x)
                 THEN /\ d.err = ""
                      /\ d.val = NightDesc[str(IntegerPart(x))]
                      /\ d.val # ""
                 ELSE d.err = "KeyError"
    /\ df # <<>> =>
          \A r \in 1..Len(df[1].rows) : \E k \in 1..Len(decl) :
              /\ decl[k].key = "weather_code"
              /\ WeatherCodes[r] # NaN
              /\ Present(WeatherCodes[r])
              /\ df[1].rows[r][k + 1] = NightDesc[str(IntegerPart(WeatherCodes[r]))]
    /\ (pc = "failed" /\ err = "KeyError" /\ failedAt = "process") =>
          \E i \in 1..Len(WeatherCodes) :
              WeatherCodes[i] # NaN /\ ~Present(WeatherCodes[i])

\* C7 witness: codes with a fractional part, one of them negative, shown by
\* their descriptions.
C7_Witness ==
    /\ df # <<>>
    /\ \E i, j \in 1..Len(WeatherCodes) :
          WeatherCodes[i] % 1000 # 0 /\ WeatherCodes[j] < 0

CfgWellFormed ==
    /\ cfgFile.kind = "json"
    /\ cfgFile.value.type = "object"
    /\ {"latitude", "longitude", "timezone"} \subseteq DOMAIN cfgFile.value.obj

\* C8: a Configuration exists only for a well-formed file with the three
\* keys, and then carries the file's three values, which are the ones the
\* request is built from; for any other file the load raises, no
\* Configuration and no request exist.
C8_ConfigAllOrNothing ==
    /\ cfg # <<>> =>
          /\ CfgWellFormed
          /\ cfg[1].latitude = cfgFile.value.obj.latitude
          /\ cfg[1].longitude = cfgFile.value.obj.longitude
          /\ cfg[1].timezone = cfgFile.value.obj.timezone
    /\ params # <<>> =>
          /\ cfg # <<>>
          /\ params[1].latitude = cfgFile.value.obj.latitude
          /\ params[1].longitude = cfgFile.value.obj.longitude
          /\ params[1].timezone = cfgFile.value.obj.timezone
    /\ (~CfgWellFormed /\ pc \notin {"start", "wmo"}) =>
          /\ pc = "failed" /\ err # ""
          /\ failedAt \in {"wmo", "config"}
          /\ cfg = <<>> /\ params = <<>> /\ attempts = 0
    /\ (CfgWellFormed /\ pc \notin {"start", "wmo"} /\ failedAt # "wmo") => cfg # <<>>

\* C8 witness: a file without one of the keys, refused.
C8_Witness ==
    /\ pc = "failed" /\ failedAt = "config" /\ err = "KeyError"
    /\ cfgFile.kind = "json"

\* C9, as amended: the stages run one at a time in the order code table,
\* configuration, fetch, assembly, render: the configuration is never
\* loaded before the code table, and nothing is sent or answered before
\* both are loaded.
C9_StagesInOrder ==
    /\ (cfg # <<>> \/ failedAt = "config") => code_lut # <<>>
    /\ (params # <<>> \/ pc = "sending" \/ attempts > 0 \/ response # <<>>) =>
          code_lut # <<>> /\ cfg # <<>>
    /\ df # <<>> => response # <<>>
    /\ table # <<>> => df # <<>>
    /\ stdout # <<>> => table # <<>>
    /\ pc = "start" => code_lut = <<>> /\ cfg = <<>> /\ response = <<>>
    /\ pc = "wmo" => code_lut # <<>> /\ cfg = <<>> /\ response = <<>>
    /\ pc \in {"cfg", "ready", "sending"} => response = <<>> /\ df = <<>>
    /\ pc = "fetched" => response # <<>> /\ df = <<>>
    /\ pc \in {"assembled", "tabulated"} => df # <<>> /\ stdout = <<>>

\* C9 witness: the code table is loaded and the configuration is not yet.
C9_Witness == pc = "wmo" /\ code_lut # <<>> /\ cfg = <<>> /\ cfgFile.kind = "json"

\* C9 as stated: the code table is never loaded before the configuration.
C9_CodesNeverBeforeConfig == code_lut # <<>> => (cfg # <<>> \/ failedAt = "config")

\* C10, as amended: the header of a column is wrapped once in the cyan
\* escape and the reset when its color is "blue", the default, and is the
\* plain text for every other setting, None or any other color.
C10_HeaderCyanOnlyForBlue ==
    \A k \in 1..Len(hourly_cols) :
        /\ decl[k].color = "blue" =>
               hourly_cols[k].col.header = CYAN \o decl[k].header \o reset
        /\ decl[k].color # "blue" => hourly_cols[k].col.header = decl[k].header

\* C10 witness: a column declared with another color, constructed.
C10_Witness ==
    \E k \in 1..Len(hourly_cols) :
        decl[k].color = "red" /\ hourly_cols[k].col.header = decl[k].header

\* C10 as stated: only a column whose color is None keeps its plain header.
C10_PlainOnlyWhenDisabled ==
    \A k \in 1..Len(hourly_cols) :
        hourly_cols[k].col.header = decl[k].header => decl[k].color = "None"

====
